---------------------------- MODULE Spec2Model ----------------------------
(***************************************************************************)
(* Request-normalisation and response-contract layer of the DefectDojo     *)
(* MCP tools (src/src/defectdojo).  One tool invocation is modelled from   *)
(* its call to its return: the synchronous part up to the single transport *)
(* await, the transport outcome, and the normalisation into an envelope.   *)
(*                                                                         *)
(* Python values are tagged records, so that None, 0, "", False and []     *)
(* stay distinguishable and Python truthiness can be computed.  A Python   *)
(* str is a sequence of one-character strings, so that lower(), title(),   *)
(* strip() and join() are computed character by character.  A Python dict  *)
(* is a function from key names to values.                                 *)
(*                                                                         *)
(* Spec runs one invocation at a time on a configured server;              *)
(* SpecEnvironment lets the process environment be anything and change     *)
(* between calls; SpecConcurrent runs two overlapping invocations.         *)
(***************************************************************************)
EXTENDS Integers, Sequences, FiniteSets, TLC

VARIABLES
    pc,        \* "idle" | "awaiting" | "done": position of the invocation
    op,        \* name of the tool being invoked
    args,      \* the arguments the caller passed (defaults filled in)
    filters,   \* the tool's local `filters` dict (EmptyDict when it has none)
    requests,  \* the transport calls issued by this invocation, in order
    outcome,   \* how the awaited transport call ended (None before it ends)
    result,    \* what client._request returned (NoResult before it returns)
    envelope,  \* the dict the tool returned (NoEnvelope if none)
    raised,    \* the exception the tool propagated (NoException if none)
    client,    \* the DefectDojoClient get_client built for this invocation
    environ,   \* os.environ: DEFECTDOJO_API_BASE and DEFECTDOJO_API_TOKEN
    startup,   \* os.environ as it was when the server process started
    frames     \* the same locals, per invocation, when invocations overlap

vars ==
    <<pc, op, args, filters, requests, outcome, result, envelope, raised, client,
      environ, startup, frames>>

----------------------------------------------------------------------------
(* Python values *)

None == [t |-> "none"]

IntV(i) == [t |-> "int", v |-> i]

BoolV(b) == [t |-> "bool", v |-> b]

StrV(s) == [t |-> "str", v |-> s]

ListV(l) == [t |-> "list", v |-> l]

EmptyDict == [k \in {} |-> None]

\* bool(x) as Python computes it for the value kinds above
Truthy(x) ==
    CASE x.t = "none" -> FALSE
      [] x.t = "int"  -> x.v # 0
      [] x.t = "bool" -> x.v
      [] x.t = "str"  -> x.v # <<>>
      [] x.t = "list" -> x.v # <<>>

\* d[k] = v on a dict
Put(d, k, v) == [x \in DOMAIN d \cup {k} |-> IF x = k THEN v ELSE d[x]]

\* {k: v for k, v in d.items() if k not in ks}
Without(d, ks) == [x \in DOMAIN d \ ks |-> d[x]]

\* d.get(k, default)
Get(d, k, default) == IF k \in DOMAIN d THEN d[k] ELSE default

\* d.pop(k, None)
Pop(d, k) == [x \in DOMAIN d \ {k} |-> d[x]]

----------------------------------------------------------------------------
(* Python str methods, on sequences of characters *)

UpperLetters ==
    <<"A","B","C","D","E","F","G","H","I","J","K","L","M",
      "N","O","P","Q","R","S","T","U","V","W","X","Y","Z">>

LowerLetters ==
    <<"a","b","c","d","e","f","g","h","i","j","k","l","m",
      "n","o","p","q","r","s","t","u","v","w","x","y","z">>

IsUpper(c) == \E i \in 1..26 : UpperLetters[i] = c

IsLower(c) == \E i \in 1..26 : LowerLetters[i] = c

IsLetter(c) == IsUpper(c) \/ IsLower(c)

LowerChar(c) ==
    IF IsUpper(c)
    THEN LowerLetters[CHOOSE i \in 1..26 : UpperLetters[i] = c]
    ELSE c

UpperChar(c) ==
    IF IsLower(c)
    THEN UpperLetters[CHOOSE i \in 1..26 : LowerLetters[i] = c]
    ELSE c

\* a lower() that leaves the string as it is
lower_unchanged(s) == s

\* str.lower()
lower(s) == [i \in 1..Len(s) |-> LowerChar(s[i])]

\* str.title(): a letter that follows a non-letter is upper-cased, any other
\* letter is lower-cased
\* the first letter of each word raised and the other letters left as they are
title_keeps_rest(s) ==
    [i \in 1..Len(s) |->
        IF i = 1 \/ ~IsLetter(s[i - 1]) THEN UpperChar(s[i]) ELSE s[i]]

title(s) ==
    [i \in 1..Len(s) |->
        IF i = 1 \/ ~IsLetter(s[i - 1]) THEN UpperChar(s[i]) ELSE LowerChar(s[i])]

IsSpace(c) == c \in {" ", "\t", "\n"}

\* not s.strip(): the string is empty or all whitespace
IsBlank(s) == \A i \in 1..Len(s) : IsSpace(s[i])

RECURSIVE join(_, _)
\* sep.join(words)
join(sep, words) ==
    IF words = <<>> THEN <<>>
    ELSE IF Len(words) = 1 THEN words[1]
    ELSE words[1] \o sep \o join(sep, Tail(words))

\* an f-string: its literal template and the values substituted into it
Msg(fmt, val) == [fmt |-> fmt, val |-> val]

----------------------------------------------------------------------------
(* String literals of the source and of the calls, as character sequences *)

s_Active == <<"A","c","t","i","v","e">>

s_Verified == <<"V","e","r","i","f","i","e","d">>

s_False_Positive == <<"F","a","l","s","e"," ","P","o","s","i","t","i","v","e">>

s_Mitigated == <<"M","i","t","i","g","a","t","e","d">>

s_Inactive == <<"I","n","a","c","t","i","v","e">>

s_active == <<"a","c","t","i","v","e">>

s_verified == <<"v","e","r","i","f","i","e","d">>

s_false_positive == <<"f","a","l","s","e"," ","p","o","s","i","t","i","v","e">>

s_mitigated == <<"m","i","t","i","g","a","t","e","d">>

s_inactive == <<"i","n","a","c","t","i","v","e">>

s_VERIFIED == <<"V","E","R","I","F","I","E","D">>

s_FALSE_POSITIVE == <<"F","A","L","S","E"," ","P","O","S","I","T","I","V","E">>

s_mItIgAtEd == <<"m","I","t","I","g","A","t","E","d">>

s_bogus_status == <<"b","o","g","u","s","-","s","t","a","t","u","s">>

s_activ == <<"a","c","t","i","v">>

s_any == <<"a","n","y">>

s_all == <<"a","l","l">>

s_ANY == <<"A","N","Y">>

s_Any == <<"A","n","y">>

s_All == <<"A","l","l">>

s_bad == <<"b","a","d">>

s_id == <<"i","d">>

s_minus_id == <<"-","i","d">>

s_minus_updated == <<"-","u","p","d","a","t","e","d">>

s_Not_Started == <<"N","o","t"," ","S","t","a","r","t","e","d">>

s_Blocked == <<"B","l","o","c","k","e","d">>

s_Cancelled == <<"C","a","n","c","e","l","l","e","d">>

s_Completed == <<"C","o","m","p","l","e","t","e","d">>

s_In_Progress == <<"I","n"," ","P","r","o","g","r","e","s","s">>

s_On_Hold == <<"O","n"," ","H","o","l","d">>

s_Waiting_for_Resource == <<"W","a","i","t","i","n","g"," ","f","o","r"," ","R","e","s","o","u","r","c","e">>

s_completed == <<"c","o","m","p","l","e","t","e","d">>

s_Interactive == <<"I","n","t","e","r","a","c","t","i","v","e">>

s_CI_CD == <<"C","I","/","C","D">>

s_interactive == <<"i","n","t","e","r","a","c","t","i","v","e">>

s_critical == <<"c","r","i","t","i","c","a","l">>

s_high == <<"h","i","g","h">>

s_medium == <<"m","e","d","i","u","m">>

s_low == <<"l","o","w">>

s_info == <<"i","n","f","o">>

s_Critical == <<"C","r","i","t","i","c","a","l">>

s_High == <<"H","i","g","h">>

s_Medium == <<"M","e","d","i","u","m">>

s_Low == <<"L","o","w">>

s_Info == <<"I","n","f","o">>

s_HIGH == <<"H","I","G","H">>

s_hIgH == <<"h","I","g","H">>

s_severe == <<"s","e","v","e","r","e">>

s_x == <<"x">>

s_a == <<"a">>

s_b == <<"b">>

s_spaces == <<" "," ">>

s_comma_space == <<","," ">>

s_Bad_Request == <<"B","a","d"," ","R","e","q","u","e","s","t">>

s_empty == <<>>

s_url == <<"u","r","l">>

s_token == <<"t","o","k","e","n">>

----------------------------------------------------------------------------
(* Bounds and the values a caller may pass *)

\* at most this many optional arguments differ from their defaults in a call
MaxSupplied == 2

RECURSIVE Pick(_, _)
\* the assignments of a value choices[p] to every parameter p of S
Pick(S, choices) ==
    IF S = {} THEN {EmptyDict}
    ELSE LET p == CHOOSE x \in S : TRUE
         IN  {Put(f, p, v) : f \in Pick(S \ {p}, choices), v \in choices[p]}

\* the argument records of a call: the signature's defaults, overridden on at
\* most MaxSupplied parameters by a value the caller supplies
Supplied(defaults, choices) ==
    UNION { { [p \in DOMAIN defaults |-> IF p \in S THEN f[p] ELSE defaults[p]]
              : f \in Pick(S, choices) }
            : S \in {T \in SUBSET DOMAIN choices : Cardinality(T) <= MaxSupplied} }

\* required arguments r together with each optional-argument record of O
WithRequired(R, O) ==
    {[p \in DOMAIN r \cup DOMAIN o |-> IF p \in DOMAIN r THEN r[p] ELSE o[p]]
        : r \in R, o \in O}

Texts == {StrV(s_empty), StrV(s_x)}

Flags == {BoolV(TRUE), BoolV(FALSE)}

Ids == {IntV(0), IntV(17002)}

\* page sizes and offsets other than the defaults
Limits == {IntV(5), IntV(0)}

Offsets == {IntV(3), IntV(-1)}

----------------------------------------------------------------------------
(* client.py: the transport client *)

Request(method, endpoint, params, json) ==
    [method |-> method, endpoint |-> endpoint, params |-> params, json |-> json]

\* what awaiting httpx's request() can produce: a response (a status code, the
\* raw text and, when the text parses, the JSON value), a httpx.RequestError
\* or any other exception
Response(code, text, parses, json) ==
    [kind |-> "response", status_code |-> code, text |-> text,
     parses |-> parses, json |-> json]

Bodies ==
    { EmptyDict,
      [count |-> IntV(42), results |-> ListV(<<IntV(730564)>>)],
      [count |-> IntV(42), results |-> ListV(<<IntV(730564), IntV(730565)>>)],
      [count |-> IntV(7), results |-> ListV(<<>>)],
      [results |-> ListV(<<>>)],
      [id |-> IntV(1), title |-> StrV(s_x)],
      [id |-> IntV(1), error |-> StrV(s_x)] }

Outcomes ==
    {Response(200, StrV(s_x), TRUE, b) : b \in Bodies}
    \cup { Response(201, StrV(s_x), TRUE, [id |-> IntV(1), title |-> StrV(s_x)]),
           Response(200, StrV(s_x), FALSE, None),
           Response(204, StrV(s_empty), FALSE, None),
           Response(400, StrV(s_Bad_Request), FALSE, None),
           Response(500, StrV(s_empty), FALSE, None),
           [kind |-> "request_error", text |-> StrV(s_x)],
           [kind |-> "exception", text |-> StrV(s_x)] }

\* _request without the 204 branch: the empty text goes to response.json()
client_request_without_204(o) ==
    IF o.kind = "response"
    THEN IF ~(200 <= o.status_code /\ o.status_code <= 299)
         THEN [error   |-> Msg("HTTP error: {e.response.status_code}", IntV(o.status_code)),
               details |-> o.text]
         ELSE IF ~o.parses
         THEN [error |-> Msg("An unexpected error occurred: {str(e)}", o.text)]
         ELSE o.json
    ELSE IF o.kind = "request_error"
    THEN [error |-> Msg("Request error: {str(e)}", o.text)]
    ELSE [error |-> Msg("An unexpected error occurred: {str(e)}", o.text)]

\* DefectDojoClient._request, from the point where the awaited call returns
client_request(o) ==
    IF o.kind = "response"
    THEN IF ~(200 <= o.status_code /\ o.status_code <= 299)
         THEN [error   |-> Msg("HTTP error: {e.response.status_code}", IntV(o.status_code)),
               details |-> o.text]
         ELSE IF o.status_code = 204
         THEN EmptyDict
         ELSE IF ~o.parses
         THEN [error |-> Msg("An unexpected error occurred: {str(e)}", o.text)]
         ELSE o.json
    ELSE IF o.kind = "request_error"
    THEN [error |-> Msg("Request error: {str(e)}", o.text)]
    ELSE [error |-> Msg("An unexpected error occurred: {str(e)}", o.text)]

client_get_findings(f) == Request("GET", Msg("/api/v2/findings/", None), f, None)

\* `params = filters or {}` aliases a non-empty filters dict, so the search key
\* is written into the caller's dict
client_search_findings_params(query, f) ==
    Put(IF DOMAIN f # {} THEN f ELSE EmptyDict, "search", query)

client_search_findings_filters(query, f) ==
    IF DOMAIN f # {} THEN client_search_findings_params(query, f) ELSE f

client_search_findings(query, f) ==
    Request("GET", Msg("/api/v2/findings/", None),
            client_search_findings_params(query, f), None)

client_update_finding(finding_id, data) ==
    Request("PATCH", Msg("/api/v2/findings/{finding_id}/", finding_id), None, data)

client_add_note_to_finding(finding_id, note) ==
    Request("POST", Msg("/api/v2/notes/", None), None,
            [entry |-> note, finding |-> finding_id])

client_create_finding(data) ==
    Request("POST", Msg("/api/v2/findings/", None), None, data)

client_get_finding(finding_id) ==
    Request("GET", Msg("/api/v2/findings/{finding_id}/", finding_id), None, None)

client_get_products(f) == Request("GET", Msg("/api/v2/products/", None), f, None)

\* get_product with the list endpoint in place of the detail endpoint
client_get_product_from_the_list(product_id) ==
    Request("GET", Msg("/api/v2/products/", None), None, None)

client_get_product(product_id) ==
    Request("GET", Msg("/api/v2/products/{product_id}/", product_id), None, None)

client_get_product_types(f) ==
    Request("GET", Msg("/api/v2/product_types/", None), f, None)

client_get_tests(f) == Request("GET", Msg("/api/v2/tests/", None), f, None)

client_get_test(test_id) ==
    Request("GET", Msg("/api/v2/tests/{test_id}/", test_id), None, None)

client_get_engagements(f) == Request("GET", Msg("/api/v2/engagements/", None), f, None)

client_get_engagement(engagement_id) ==
    Request("GET", Msg("/api/v2/engagements/{engagement_id}/", engagement_id), None, None)

client_create_engagement(data) ==
    Request("POST", Msg("/api/v2/engagements/", None), None, data)

client_update_engagement(engagement_id, data) ==
    Request("PATCH", Msg("/api/v2/engagements/{engagement_id}/", engagement_id), None, data)

client_get_users(f) == Request("GET", Msg("/api/v2/users/", None), f, None)

client_get_user(user_id) ==
    Request("GET", Msg("/api/v2/users/{user_id}/", user_id), None, None)

client_get_dojo_groups(f) == Request("GET", Msg("/api/v2/dojo_groups/", None), f, None)

client_get_dojo_group_members(f) ==
    Request("GET", Msg("/api/v2/dojo_group_members/", None), f, None)

\* get_client(): the ValueError it raises, or the client it constructs from
\* the environment env as it is at the call
get_client(env) ==
    IF ~Truthy(env.DEFECTDOJO_API_BASE)
    THEN [raises |-> TRUE,
          exception |-> [type |-> "ValueError",
                         message |-> Msg("DEFECTDOJO_API_BASE environment variable or base_url argument must be provided and cannot be empty.", None)]]
    ELSE IF ~Truthy(env.DEFECTDOJO_API_TOKEN)
    THEN [raises |-> TRUE,
          exception |-> [type |-> "ValueError",
                         message |-> Msg("DEFECTDOJO_API_TOKEN environment variable or token argument must be provided", None)]]
    ELSE [raises |-> FALSE,
          client |-> [base_url |-> env.DEFECTDOJO_API_BASE,
                      api_token |-> env.DEFECTDOJO_API_TOKEN]]

----------------------------------------------------------------------------
(* The three ways the synchronous part of a tool ends *)

\* the tool awaits a client method that issued request req
Await(req, f) == [tag |-> "await", request |-> req, filters |-> f]

\* the tool returns env without reaching the transport
Return(env) == [tag |-> "return", envelope |-> env]

\* the tool propagates exception exc
Raise(exc) == [tag |-> "raise", exception |-> exc]

\* the error branch with the transport's details left out
error_envelope_without_details(res) ==
    [status |-> "error", error |-> res["error"], details |-> StrV(s_empty)]

\* the `if "error" in result` branch shared by every tool
error_envelope(res) ==
    [status |-> "error", error |-> res["error"],
     details |-> Get(res, "details", StrV(s_empty))]

\* the list tools' success branch with the body's count copied beside data
data_envelope_with_count(f, res) ==
    LET applied  == Without(f, {"limit", "offset", "o"})
        response == [status |-> "success", data |-> res,
                     count |-> Get(res, "count", IntV(0))]
    IN  IF DOMAIN applied # {} THEN Put(response, "applied_filters", applied)
        ELSE response

\* the success branch of the list tools that echo their filters
data_envelope(f, res) ==
    LET applied  == Without(f, {"limit", "offset", "o"})
        response == [status |-> "success", data |-> res]
    IN  IF DOMAIN applied # {} THEN Put(response, "applied_filters", applied)
        ELSE response

\* the count taken as the number of records on the returned page
count_envelope_from_results(f, res) ==
    LET applied  == Without(f, {"limit", "offset", "o"})
        response == [status |-> "success",
                     count  |-> IntV(Len(Get(res, "results", ListV(<<>>)).v))]
    IN  IF DOMAIN applied # {} THEN Put(response, "applied_filters", applied)
        ELSE response

\* the success branch of the count tools
count_envelope(f, res) ==
    LET applied  == Without(f, {"limit", "offset", "o"})
        response == [status |-> "success", count |-> Get(res, "count", IntV(0))]
    IN  IF DOMAIN applied # {} THEN Put(response, "applied_filters", applied)
        ELSE response

\* the success branch of the tools that return the body alone
plain_envelope(res) == [status |-> "success", data |-> res]

----------------------------------------------------------------------------
(* Statements shared by the builders *)

\* `if x: d[k] = x`
put_if_truthy(d, k, x) == IF Truthy(x) THEN Put(d, k, x) ELSE d

\* the `is not None` test written as a truthiness test
put_if_not_none_as_truthy(d, k, x) == IF Truthy(x) THEN Put(d, k, x) ELSE d

\* `if x is not None: d[k] = x`
put_if_not_none(d, k, x) == IF x # None THEN Put(d, k, x) ELSE d

\* the offset stored whatever its value
put_offset_always(f, offset) == Put(f, "offset", offset)

\* the offset stored only when it is greater than zero
put_offset_when_positive(f, offset) == IF offset.v > 0 THEN Put(f, "offset", offset) ELSE f

\* `if offset: filters["offset"] = offset`
put_offset(f, offset) == IF Truthy(offset) THEN Put(f, "offset", offset) ELSE f

----------------------------------------------------------------------------
(* findings_tools.py *)

build_findings_filters_defaults ==
    [product_name |-> None, severity |-> None, active |-> None,
     is_mitigated |-> None, duplicate |-> None, engagement_id |-> None,
     limit |-> IntV(20), offset |-> IntV(0)]

findings_choices ==
    [product_name |-> Texts, severity |-> {StrV(s_empty), StrV(s_Critical)},
     active |-> Flags, is_mitigated |-> Flags, duplicate |-> Flags,
     engagement_id |-> Ids, limit |-> Limits, offset |-> Offsets]

\* the builder with the engagement stored under the key `engagement`
build_findings_filters_engagement_key(a) ==
    LET f0 == [limit |-> a.limit, o |-> StrV(s_id)]
        f1 == put_if_truthy(f0, "product_name", a.product_name)
        f2 == put_if_truthy(f1, "severity", a.severity)
        f3 == put_if_not_none(f2, "active", a.active)
        f4 == put_if_not_none(f3, "is_mitigated", a.is_mitigated)
        f5 == put_if_not_none(f4, "duplicate", a.duplicate)
        f6 == put_if_not_none(f5, "engagement", a.engagement_id)
    IN  put_offset(f6, a.offset)

\* _build_findings_filters
build_findings_filters(a) ==
    LET f0 == [limit |-> a.limit, o |-> StrV(s_id)]
        f1 == put_if_truthy(f0, "product_name", a.product_name)
        f2 == put_if_truthy(f1, "severity", a.severity)
        f3 == put_if_not_none(f2, "active", a.active)
        f4 == put_if_not_none(f3, "is_mitigated", a.is_mitigated)
        f5 == put_if_not_none(f4, "duplicate", a.duplicate)
        f6 == put_if_not_none(f5, "test__engagement", a.engagement_id)
    IN  put_offset(f6, a.offset)

get_findings_args == Supplied(build_findings_filters_defaults, findings_choices)

get_findings_call(a) ==
    LET f == build_findings_filters(a)
    IN  Await(client_get_findings(f), f)

get_findings_return(f, res) ==
    IF "error" \in DOMAIN res THEN error_envelope(res) ELSE data_envelope(f, res)

search_findings_args ==
    WithRequired({[query |-> q] : q \in Texts},
                 Supplied(build_findings_filters_defaults, findings_choices))

search_findings_call(a) ==
    LET f == build_findings_filters(a)
    IN  Await(client_search_findings(a.query, f),
              client_search_findings_filters(a.query, f))

search_findings_return(a, f, res) ==
    IF "error" \in DOMAIN res THEN error_envelope(res)
    ELSE LET applied == Put(Without(f, {"limit", "offset", "o"}), "query", a.query)
             response == [status |-> "success", data |-> res]
         IN  IF DOMAIN applied # {} THEN Put(response, "applied_filters", applied)
             ELSE response

count_findings_args ==
    Supplied(Without(build_findings_filters_defaults, {"limit", "offset"}),
             Without(findings_choices, {"limit", "offset"}))

\* count_findings without the duplicate filter
count_findings_call_without_duplicate(a) ==
    LET f == build_findings_filters(
                 [p \in DOMAIN a \cup {"limit", "offset"} |->
                     IF p = "limit" THEN IntV(1)
                     ELSE IF p = "offset" THEN IntV(0)
                     ELSE IF p = "duplicate" THEN None ELSE a[p]])
    IN  Await(client_get_findings(f), f)

count_findings_call(a) ==
    LET f == build_findings_filters(
                 [p \in DOMAIN a \cup {"limit", "offset"} |->
                     IF p = "limit" THEN IntV(1)
                     ELSE IF p = "offset" THEN IntV(0) ELSE a[p]])
    IN  Await(client_get_findings(f), f)

count_findings_return(f, res) ==
    IF "error" \in DOMAIN res THEN error_envelope(res) ELSE count_envelope(f, res)

StatusInputs ==
    { s_Active, s_Verified, s_False_Positive, s_Mitigated, s_Inactive,
      s_active, s_VERIFIED, s_FALSE_POSITIVE, s_false_positive, s_mItIgAtEd,
      s_inactive, s_bogus_status, s_activ, s_empty, s_Completed }

update_finding_status_args ==
    {[finding_id |-> i, status |-> StrV(s)] : i \in {IntV(1), IntV(999999)}, s \in StatusInputs}

\* the if/elif chain that maps the lower-cased status onto flags; `unsupported`
\* is the final elif, which returns the error envelope
status_flags(status_lower) ==
    LET data == [active |-> BoolV(TRUE)]
    IN  IF status_lower = s_false_positive
        THEN [unsupported |-> FALSE, data |-> Put(data, "false_p", BoolV(TRUE))]
        ELSE IF status_lower = s_verified
        THEN [unsupported |-> FALSE, data |-> Put(data, "verified", BoolV(TRUE))]
        ELSE IF status_lower = s_mitigated
        THEN [unsupported |-> FALSE,
              data |-> Put(Put(data, "active", BoolV(FALSE)), "mitigated", BoolV(TRUE))]
        ELSE IF status_lower = s_inactive
        THEN [unsupported |-> FALSE, data |-> Put(data, "active", BoolV(FALSE))]
        ELSE IF status_lower # s_active
        THEN [unsupported |-> TRUE, data |-> data]
        ELSE [unsupported |-> FALSE, data |-> data]

\* the clearing step with the false-positive branch leaving `active` in place
clear_conflicting_flags_keeps_active(data) ==
    IF Truthy(Get(data, "false_p", None))
    THEN Pop(Pop(data, "verified"), "mitigated")
    ELSE IF Truthy(Get(data, "verified", None))
    THEN Pop(Put(Pop(data, "false_p"), "active", BoolV(TRUE)), "mitigated")
    ELSE IF Truthy(Get(data, "mitigated", None))
    THEN Put(Pop(Pop(data, "false_p"), "verified"), "active", BoolV(FALSE))
    ELSE data

\* "Clear conflicting flags if setting a specific status"
clear_conflicting_flags(data) ==
    IF Truthy(Get(data, "false_p", None))
    THEN Pop(Pop(Pop(data, "verified"), "active"), "mitigated")
    ELSE IF Truthy(Get(data, "verified", None))
    THEN Pop(Put(Pop(data, "false_p"), "active", BoolV(TRUE)), "mitigated")
    ELSE IF Truthy(Get(data, "mitigated", None))
    THEN Put(Pop(Pop(data, "false_p"), "verified"), "active", BoolV(FALSE))
    ELSE IF ~Truthy(Get(data, "active", BoolV(TRUE)))
    THEN Put(Pop(Pop(Pop(data, "false_p"), "verified"), "mitigated"), "active", BoolV(FALSE))
    ELSE Put(Pop(Pop(Pop(data, "false_p"), "verified"), "mitigated"), "active", BoolV(TRUE))

update_finding_status_call(a) ==
    LET m == status_flags(lower(a.status.v))
    IN  IF m.unsupported
        THEN Return([status |-> "error",
                     error  |-> Msg("Unsupported status: {status}. Use Active, Verified, False Positive, Mitigated, or Inactive.",
                                    a.status)])
        ELSE Await(client_update_finding(a.finding_id, clear_conflicting_flags(m.data)),
                   EmptyDict)

update_finding_status_return(res) ==
    IF "error" \in DOMAIN res THEN error_envelope(res) ELSE plain_envelope(res)

NoteInputs == {s_empty, s_spaces, s_x, <<" ", "x", " ">>}

add_finding_note_args ==
    {[finding_id |-> IntV(1), note |-> StrV(s)] : s \in NoteInputs}

add_finding_note_call(a) ==
    IF IsBlank(a.note.v)
    THEN Return([status |-> "error", error |-> Msg("Note content cannot be empty", None)])
    ELSE Await(client_add_note_to_finding(a.finding_id, a.note), EmptyDict)

add_finding_note_return(res) ==
    IF "error" \in DOMAIN res THEN error_envelope(res) ELSE plain_envelope(res)

create_finding_defaults ==
    [cwe |-> None, cvssv3 |-> None, mitigation |-> None, impact |-> None,
     steps_to_reproduce |-> None]

create_finding_choices ==
    [cwe |-> {IntV(0), IntV(79)}, cvssv3 |-> Texts, mitigation |-> Texts,
     impact |-> Texts, steps_to_reproduce |-> Texts]

SeverityInputs ==
    {s_Critical, s_high, s_HIGH, s_hIgH, s_Medium, s_low, s_Info, s_severe, s_empty}

create_finding_args ==
    WithRequired({[title |-> StrV(s_x), test_id |-> IntV(1), severity |-> StrV(s),
                   description |-> StrV(s_x)] : s \in SeverityInputs},
                 Supplied(create_finding_defaults, create_finding_choices))

valid_severities == <<s_critical, s_high, s_medium, s_low, s_info>>

Elements(seq) == {seq[i] : i \in 1..Len(seq)}

create_finding_call(a) ==
    IF lower(a.severity.v) \notin Elements(valid_severities)
    THEN Return([status |-> "error",
                 error  |-> Msg("Invalid severity '{severity}'. Must be one of: {', '.join(valid_display)}",
                                <<a.severity,
                                  StrV(join(s_comma_space,
                                            [i \in 1..Len(valid_severities) |->
                                                title(valid_severities[i])]))>>)])
    ELSE LET d0 == [title |-> a.title, test |-> a.test_id,
                    severity |-> StrV(title(a.severity.v)),
                    description |-> a.description,
                    active |-> BoolV(TRUE), verified |-> BoolV(FALSE)]
             d1 == put_if_not_none(d0, "cwe", a.cwe)
             d2 == put_if_truthy(d1, "cvssv3", a.cvssv3)
             d3 == put_if_truthy(d2, "mitigation", a.mitigation)
             d4 == put_if_truthy(d3, "impact", a.impact)
             d5 == put_if_truthy(d4, "steps_to_reproduce", a.steps_to_reproduce)
         IN  Await(client_create_finding(d5), EmptyDict)

create_finding_return(res) ==
    IF "error" \in DOMAIN res THEN error_envelope(res) ELSE plain_envelope(res)

get_finding_args == {[finding_id |-> i] : i \in {IntV(1), IntV(999999)}}

get_finding_call(a) == Await(client_get_finding(a.finding_id), EmptyDict)

get_finding_return(res) ==
    IF "error" \in DOMAIN res THEN error_envelope(res) ELSE plain_envelope(res)

----------------------------------------------------------------------------
(* products_tools.py *)

VALID_TAGS_MODES == <<s_any, s_all>>

build_product_filters_defaults ==
    [name |-> None, prod_type |-> None, tags |-> None, tags_mode |-> None,
     external_audience |-> None, internet_accessible |-> None,
     limit |-> IntV(50), offset |-> IntV(0)]

TagsInputs ==
    {StrV(s_x), ListV(<<StrV(s_a), StrV(s_b)>>), ListV(<<StrV(s_b), StrV(s_a)>>), ListV(<<>>)}

TagsModeInputs ==
    {StrV(s_any), StrV(s_ANY), StrV(s_Any), StrV(s_all), StrV(s_All), StrV(s_bad),
     StrV(s_empty)}

products_choices ==
    [name |-> Texts, prod_type |-> {IntV(0), IntV(5), ListV(<<IntV(2), IntV(1)>>)},
     tags |-> TagsInputs, tags_mode |-> TagsModeInputs,
     external_audience |-> Flags, internet_accessible |-> Flags,
     limit |-> Limits, offset |-> Offsets]

\* `(tags_mode or "all").lower()`
effective_mode(tags_mode) == lower(IF Truthy(tags_mode) THEN tags_mode.v ELSE s_all)

\* the text of the ValueError raised on a bad tags_mode
invalid_tags_mode_message(tags_mode) ==
    Msg("Invalid tags_mode '{tags_mode}'. Must be one of: {', '.join(VALID_TAGS_MODES)}",
        <<tags_mode, StrV(join(s_comma_space, VALID_TAGS_MODES))>>)

\* the tags stored as the caller gave them
tag_list_as_given(tags) == tags

\* `[tags] if isinstance(tags, str) else list(tags)`
tag_list(tags) == IF tags.t = "str" THEN ListV(<<tags>>) ELSE tags

\* the tag list stored under `tags` whatever the mode
tags_key_ignores_mode(mode) == "tags"

\* the key the tag list is stored under, for an effective mode that is valid
tags_key(mode) == IF mode = s_all THEN "tags" ELSE "tag"

\* whether the `raise ValueError` of the tags block is reached
tags_mode_rejected(tags, tags_mode) ==
    tags # None /\ effective_mode(tags_mode) \notin Elements(VALID_TAGS_MODES)

\* _build_product_filters: the ValueError it raises, or the dict it returns
build_product_filters(a) ==
    LET f0 == [limit |-> a.limit, o |-> StrV(s_id)]
        f1 == put_if_truthy(f0, "name", a.name)
        f2 == put_if_not_none(f1, "prod_type", a.prod_type)
        f3 == IF a.tags # None
              THEN Put(f2, tags_key(effective_mode(a.tags_mode)), tag_list(a.tags))
              ELSE f2
        f4 == put_if_not_none(f3, "external_audience", a.external_audience)
        f5 == put_if_not_none(f4, "internet_accessible", a.internet_accessible)
    IN  IF tags_mode_rejected(a.tags, a.tags_mode)
        THEN [raises |-> TRUE,
              exception |-> [type |-> "ValueError",
                             message |-> invalid_tags_mode_message(a.tags_mode)]]
        ELSE [raises |-> FALSE, filters |-> put_offset(f5, a.offset)]

list_products_args == Supplied(build_product_filters_defaults, products_choices)

\* `except ValueError as exc: return {"status": "error", "error": str(exc)}`
value_error_envelope(exc) == [status |-> "error", error |-> exc.message]

list_products_call(a) ==
    LET b == build_product_filters(a)
    IN  IF b.raises THEN Return(value_error_envelope(b.exception))
        ELSE Await(client_get_products(b.filters), b.filters)

list_products_return(f, res) ==
    IF "error" \in DOMAIN res THEN error_envelope(res) ELSE data_envelope(f, res)

count_products_args ==
    Supplied(Without(build_product_filters_defaults, {"limit", "offset"}),
             Without(products_choices, {"limit", "offset"}))

count_products_call(a) ==
    LET b == build_product_filters(
                 [p \in DOMAIN a \cup {"limit", "offset"} |->
                     IF p = "limit" THEN IntV(1)
                     ELSE IF p = "offset" THEN IntV(0) ELSE a[p]])
    IN  IF b.raises THEN Return(value_error_envelope(b.exception))
        ELSE Await(client_get_products(b.filters), b.filters)

count_products_return(f, res) ==
    IF "error" \in DOMAIN res THEN error_envelope(res) ELSE count_envelope(f, res)

----------------------------------------------------------------------------
(* get_product and list_product_types.  tests/test_new_tools.py imports both
   from products_tools, whose source has neither: they are written here as
   the specification and those tests describe them, in the manner of
   get_finding and list_products. *)

get_product_args == {[product_id |-> i] : i \in {IntV(15), IntV(999999)}}

get_product_call(a) == Await(client_get_product(a.product_id), EmptyDict)

get_product_return(res) ==
    IF "error" \in DOMAIN res THEN error_envelope(res) ELSE plain_envelope(res)

list_product_types_defaults == [name |-> None, limit |-> IntV(50), offset |-> IntV(0)]

list_product_types_args ==
    Supplied(list_product_types_defaults,
             [name |-> Texts, limit |-> Limits, offset |-> Offsets])

list_product_types_call(a) ==
    LET f0 == [limit |-> a.limit, o |-> StrV(s_id)]
        f1 == put_if_truthy(f0, "name", a.name)
        f2 == put_offset(f1, a.offset)
    IN  Await(client_get_product_types(f2), f2)

list_product_types_return(f, res) ==
    IF "error" \in DOMAIN res THEN error_envelope(res) ELSE data_envelope(f, res)

----------------------------------------------------------------------------
(* engagements_tools.py *)

valid_statuses ==
    <<s_Not_Started, s_Blocked, s_Cancelled, s_Completed, s_In_Progress,
      s_On_Hold, s_Waiting_for_Resource>>

valid_engagement_types == <<s_Interactive, s_CI_CD>>

EngagementStatusInputs ==
    {StrV(s_Completed), StrV(s_In_Progress), StrV(s_completed), StrV(s_bad), StrV(s_empty)}

EngagementTypeInputs ==
    {StrV(s_Interactive), StrV(s_CI_CD), StrV(s_interactive), StrV(s_empty)}

list_engagements_defaults ==
    [product_id |-> None, status |-> None, name |-> None,
     limit |-> IntV(20), offset |-> IntV(0)]

list_engagements_args ==
    Supplied(list_engagements_defaults,
             [product_id |-> Ids, status |-> EngagementStatusInputs, name |-> Texts,
              limit |-> Limits, offset |-> Offsets])

\* the status filter is checked only when it is truthy
list_engagements_status_rejected(status) ==
    Truthy(status) /\ status.v \notin Elements(valid_statuses)

\* the filters dict list_engagements builds inline
list_engagements_filters(a) ==
    LET f0 == [limit |-> a.limit, o |-> StrV(s_minus_updated)]
        f1 == put_if_truthy(f0, "product", a.product_id)
        f2 == put_if_truthy(f1, "status", a.status)
        f3 == put_if_truthy(f2, "name", a.name)
    IN  put_offset(f3, a.offset)

list_engagements_call(a) ==
    IF list_engagements_status_rejected(a.status)
    THEN Return([status |-> "error",
                 error  |-> Msg("Invalid status filter '{status}'. Must be one of: {', '.join(valid_statuses)}",
                                <<a.status, StrV(join(s_comma_space, valid_statuses))>>)])
    ELSE Await(client_get_engagements(list_engagements_filters(a)),
               list_engagements_filters(a))

list_engagements_return(res) ==
    IF "error" \in DOMAIN res THEN error_envelope(res) ELSE plain_envelope(res)

get_engagement_args == {[engagement_id |-> i] : i \in {IntV(1), IntV(17002)}}

get_engagement_call(a) == Await(client_get_engagement(a.engagement_id), EmptyDict)

get_engagement_return(res) ==
    IF "error" \in DOMAIN res THEN error_envelope(res) ELSE plain_envelope(res)

engagement_optional_defaults ==
    [lead_id |-> None, description |-> None, version |-> None, build_id |-> None,
     commit_hash |-> None, branch_tag |-> None, engagement_type |-> None,
     deduplication_on_engagement |-> None, tags |-> None]

engagement_optional_choices ==
    [lead_id |-> {IntV(0), IntV(7)}, description |-> Texts, version |-> Texts,
     build_id |-> {StrV(s_x)}, commit_hash |-> {StrV(s_x)}, branch_tag |-> {StrV(s_x)},
     engagement_type |-> EngagementTypeInputs,
     deduplication_on_engagement |-> Flags,
     tags |-> {ListV(<<>>), ListV(<<StrV(s_a), StrV(s_b)>>)}]

\* the optional fields both engagement mutations copy when they are not None
engagement_optional_fields(d, a) ==
    LET d1 == put_if_not_none(d, "lead", a.lead_id)
        d2 == put_if_not_none(d1, "version", a.version)
        d3 == put_if_not_none(d2, "build_id", a.build_id)
        d4 == put_if_not_none(d3, "commit_hash", a.commit_hash)
        d5 == put_if_not_none(d4, "branch_tag", a.branch_tag)
        d6 == put_if_not_none(d5, "engagement_type", a.engagement_type)
        d7 == put_if_not_none(d6, "deduplication_on_engagement",
                              a.deduplication_on_engagement)
    IN  put_if_not_none(d7, "tags", a.tags)

\* `if engagement_type and engagement_type not in ["Interactive", "CI/CD"]`
engagement_type_rejected(engagement_type) ==
    Truthy(engagement_type) /\ engagement_type.v \notin Elements(valid_engagement_types)

create_engagement_args ==
    WithRequired({[product_id |-> IntV(1), name |-> StrV(s_x),
                   target_start |-> StrV(s_a), target_end |-> StrV(s_b),
                   status |-> s] : s \in EngagementStatusInputs},
                 Supplied(engagement_optional_defaults, engagement_optional_choices))

create_engagement_call(a) ==
    IF a.status.v \notin Elements(valid_statuses)
    THEN Raise([type |-> "ValueError",
                message |-> Msg("Invalid status '{status}'. Must be one of: {', '.join(valid_statuses)}",
                                <<a.status, StrV(join(s_comma_space, valid_statuses))>>)])
    ELSE IF engagement_type_rejected(a.engagement_type)
    THEN Raise([type |-> "ValueError",
                message |-> Msg("Invalid engagement_type '{engagement_type}'. Must be 'Interactive' or 'CI/CD'.",
                                a.engagement_type)])
    ELSE LET d0 == [product |-> a.product_id, name |-> a.name,
                    target_start |-> a.target_start, target_end |-> a.target_end,
                    status |-> a.status]
             d1 == put_if_not_none(d0, "description", a.description)
         IN  Await(client_create_engagement(engagement_optional_fields(d1, a)), EmptyDict)

create_engagement_return(res) ==
    IF "error" \in DOMAIN res THEN error_envelope(res) ELSE plain_envelope(res)

update_engagement_defaults ==
    [p \in DOMAIN engagement_optional_defaults
           \cup {"name", "target_start", "target_end", "status"} |-> None]

update_engagement_choices ==
    [p \in DOMAIN update_engagement_defaults |->
        IF p \in DOMAIN engagement_optional_choices THEN engagement_optional_choices[p]
        ELSE IF p = "status" THEN EngagementStatusInputs
        ELSE IF p = "name" THEN Texts
        ELSE {StrV(s_a)}]

update_engagement_args ==
    WithRequired({[engagement_id |-> IntV(1)]},
                 Supplied(update_engagement_defaults, update_engagement_choices))

\* `if status:` guards the vocabulary check of update_engagement
update_engagement_status_rejected(status) ==
    Truthy(status) /\ status.v \notin Elements(valid_statuses)

\* the PATCH body with name and description copied only when they are truthy
update_engagement_data_truthy_texts(a) ==
    LET d1 == put_if_truthy(EmptyDict, "name", a.name)
        d2 == put_if_not_none(d1, "target_start", a.target_start)
        d3 == put_if_not_none(d2, "target_end", a.target_end)
        d4 == put_if_not_none(d3, "status", a.status)
        d5 == put_if_truthy(d4, "description", a.description)
    IN  engagement_optional_fields(d5, a)

\* the PATCH body update_engagement assembles
update_engagement_data(a) ==
    LET d1 == put_if_not_none(EmptyDict, "name", a.name)
        d2 == put_if_not_none(d1, "target_start", a.target_start)
        d3 == put_if_not_none(d2, "target_end", a.target_end)
        d4 == put_if_not_none(d3, "status", a.status)
        d5 == put_if_not_none(d4, "description", a.description)
    IN  engagement_optional_fields(d5, a)

update_engagement_call(a) ==
    IF update_engagement_status_rejected(a.status)
    THEN Return([status |-> "error",
                 error  |-> Msg("Invalid status '{status}'. Must be one of: {', '.join(valid_statuses)}",
                                <<a.status, StrV(join(s_comma_space, valid_statuses))>>)])
    ELSE IF engagement_type_rejected(a.engagement_type)
    THEN Return([status |-> "error",
                 error  |-> Msg("Invalid engagement_type '{engagement_type}'. Must be 'Interactive' or 'CI/CD'.",
                                a.engagement_type)])
    ELSE IF DOMAIN update_engagement_data(a) = {}
    THEN Return([status |-> "error",
                 error  |-> Msg("At least one field must be provided for update", None)])
    ELSE Await(client_update_engagement(a.engagement_id, update_engagement_data(a)),
               EmptyDict)

update_engagement_return(res) ==
    IF "error" \in DOMAIN res THEN error_envelope(res) ELSE plain_envelope(res)

close_engagement_args == {[engagement_id |-> i] : i \in {IntV(1), IntV(17002)}}

close_engagement_call(a) ==
    Await(client_update_engagement(a.engagement_id, [status |-> StrV(s_Completed)]),
          EmptyDict)

close_engagement_return(res) ==
    IF "error" \in DOMAIN res THEN error_envelope(res) ELSE plain_envelope(res)

----------------------------------------------------------------------------
(* tests_tools.py *)

list_tests_defaults ==
    [engagement_id |-> None, test_type |-> None, tags |-> None,
     limit |-> IntV(20), offset |-> IntV(0)]

list_tests_args ==
    Supplied(list_tests_defaults,
             [engagement_id |-> Ids, test_type |-> {IntV(0), IntV(3)}, tags |-> Texts,
              limit |-> Limits, offset |-> Offsets])

list_tests_filters(a) ==
    LET f0 == [limit |-> a.limit, o |-> StrV(s_minus_id)]
        f1 == put_if_not_none(f0, "engagement", a.engagement_id)
        f2 == put_if_not_none(f1, "test_type", a.test_type)
        f3 == put_if_truthy(f2, "tags", a.tags)
    IN  put_offset(f3, a.offset)

list_tests_call(a) == Await(client_get_tests(list_tests_filters(a)), list_tests_filters(a))

list_tests_return(f, res) ==
    IF "error" \in DOMAIN res THEN error_envelope(res) ELSE data_envelope(f, res)

get_test_args == {[test_id |-> i] : i \in {IntV(1), IntV(18550)}}

get_test_call(a) == Await(client_get_test(a.test_id), EmptyDict)

get_test_return(res) ==
    IF "error" \in DOMAIN res THEN error_envelope(res) ELSE plain_envelope(res)

----------------------------------------------------------------------------
(* users_tools.py *)

list_users_defaults ==
    [username |-> None, first_name |-> None, last_name |-> None,
     is_active |-> None, is_superuser |-> None, limit |-> IntV(50), offset |-> IntV(0)]

list_users_args ==
    Supplied(list_users_defaults,
             [username |-> Texts, first_name |-> Texts, last_name |-> Texts,
              is_active |-> Flags, is_superuser |-> Flags,
              limit |-> Limits, offset |-> Offsets])

list_users_filters(a) ==
    LET f0 == [limit |-> a.limit, o |-> StrV(s_id)]
        f1 == put_if_truthy(f0, "username", a.username)
        f2 == put_if_truthy(f1, "first_name", a.first_name)
        f3 == put_if_truthy(f2, "last_name", a.last_name)
        f4 == put_if_not_none(f3, "is_active", a.is_active)
        f5 == put_if_not_none(f4, "is_superuser", a.is_superuser)
    IN  put_offset(f5, a.offset)

list_users_call(a) == Await(client_get_users(list_users_filters(a)), list_users_filters(a))

list_users_return(f, res) ==
    IF "error" \in DOMAIN res THEN error_envelope(res) ELSE data_envelope(f, res)

get_user_args == {[user_id |-> i] : i \in {IntV(1), IntV(2)}}

get_user_call(a) == Await(client_get_user(a.user_id), EmptyDict)

get_user_return(res) ==
    IF "error" \in DOMAIN res THEN error_envelope(res) ELSE plain_envelope(res)

list_dojo_groups_defaults == [name |-> None, limit |-> IntV(50), offset |-> IntV(0)]

list_dojo_groups_args ==
    Supplied(list_dojo_groups_defaults,
             [name |-> Texts, limit |-> Limits, offset |-> Offsets])

list_dojo_groups_filters(a) ==
    LET f0 == [limit |-> a.limit, o |-> StrV(s_id)]
        f1 == put_if_truthy(f0, "name", a.name)
    IN  put_offset(f1, a.offset)

list_dojo_groups_call(a) ==
    Await(client_get_dojo_groups(list_dojo_groups_filters(a)), list_dojo_groups_filters(a))

list_dojo_groups_return(f, res) ==
    IF "error" \in DOMAIN res THEN error_envelope(res) ELSE data_envelope(f, res)

list_dojo_group_members_defaults ==
    [group_id |-> None, user_id |-> None, limit |-> IntV(50), offset |-> IntV(0)]

list_dojo_group_members_args ==
    Supplied(list_dojo_group_members_defaults,
             [group_id |-> Ids, user_id |-> Ids, limit |-> Limits, offset |-> Offsets])

list_dojo_group_members_filters(a) ==
    LET f0 == [limit |-> a.limit, o |-> StrV(s_id)]
        f1 == put_if_not_none(f0, "group", a.group_id)
        f2 == put_if_not_none(f1, "user", a.user_id)
    IN  put_offset(f2, a.offset)

list_dojo_group_members_call(a) ==
    Await(client_get_dojo_group_members(list_dojo_group_members_filters(a)),
          list_dojo_group_members_filters(a))

list_dojo_group_members_return(f, res) ==
    IF "error" \in DOMAIN res THEN error_envelope(res) ELSE data_envelope(f, res)

----------------------------------------------------------------------------
(* The state machine: one tool invocation at a time *)

\* the environment of a configured server
Configured ==
    [DEFECTDOJO_API_BASE |-> StrV(s_url), DEFECTDOJO_API_TOKEN |-> StrV(s_token)]

\* the locals of an invocation slot in which nothing runs
IdleFrame ==
    [pc |-> "idle", op |-> "none", args |-> EmptyDict, filters |-> EmptyDict,
     requests |-> <<>>, outcome |-> None, result |-> None, envelope |-> None,
     raised |-> None, client |-> None]

\* the two slots in which overlapping invocations run
Slots == {1, 2}

\* the single invocation slot holds the locals fr
Holds(fr) ==
    /\ pc = fr.pc
    /\ op = fr.op
    /\ args = fr.args
    /\ filters = fr.filters
    /\ requests = fr.requests
    /\ outcome = fr.outcome
    /\ result = fr.result
    /\ envelope = fr.envelope
    /\ raised = fr.raised
    /\ client = fr.client

Init ==
    /\ Holds(IdleFrame)
    /\ environ = Configured
    /\ startup = Configured
    /\ frames = [s \in Slots |-> IdleFrame]

\* the locals of an invocation of tool `name` with arguments a when its
\* synchronous part has ended as `step` says; a step that awaits the transport
\* first calls get_client(), which reads the environment env
Started(name, a, step, env) ==
    LET begun == [IdleFrame EXCEPT !.op = name, !.args = a, !.pc = "done"]
    IN  IF step.tag = "await"
        THEN LET c == get_client(env)
             IN  IF c.raises
                 THEN [begun EXCEPT !.raised = c.exception]
                 ELSE [begun EXCEPT !.pc = "awaiting", !.filters = step.filters,
                                    !.requests = <<step.request>>,
                                    !.client = c.client]
        ELSE IF step.tag = "return"
        THEN [begun EXCEPT !.envelope = step.envelope]
        ELSE IF step.tag = "built"
        THEN [begun EXCEPT !.filters = step.filters]
        ELSE [begun EXCEPT !.raised = step.exception]

\* the single invocation slot takes the locals fr
Becomes(fr) ==
    /\ pc' = fr.pc
    /\ op' = fr.op
    /\ args' = fr.args
    /\ filters' = fr.filters
    /\ requests' = fr.requests
    /\ outcome' = fr.outcome
    /\ result' = fr.result
    /\ envelope' = fr.envelope
    /\ raised' = fr.raised
    /\ client' = fr.client

\* the caller invokes tool `name` with arguments a; `step` is how the tool's
\* synchronous part ends
Invoke(name, a, step) ==
    /\ Becomes(Started(name, a, step, environ))
    /\ UNCHANGED <<environ, startup, frames>>

get_findings ==
    /\ pc = "idle"
    /\ \E a \in get_findings_args : Invoke("get_findings", a, get_findings_call(a))

search_findings ==
    /\ pc = "idle"
    /\ \E a \in search_findings_args : Invoke("search_findings", a, search_findings_call(a))

count_findings ==
    /\ pc = "idle"
    /\ \E a \in count_findings_args : Invoke("count_findings", a, count_findings_call(a))

update_finding_status ==
    /\ pc = "idle"
    /\ \E a \in update_finding_status_args : Invoke("update_finding_status", a, update_finding_status_call(a))

add_finding_note ==
    /\ pc = "idle"
    /\ \E a \in add_finding_note_args : Invoke("add_finding_note", a, add_finding_note_call(a))

create_finding ==
    /\ pc = "idle"
    /\ \E a \in create_finding_args : Invoke("create_finding", a, create_finding_call(a))

get_finding ==
    /\ pc = "idle"
    /\ \E a \in get_finding_args : Invoke("get_finding", a, get_finding_call(a))

list_products ==
    /\ pc = "idle"
    /\ \E a \in list_products_args : Invoke("list_products", a, list_products_call(a))

get_product ==
    /\ pc = "idle"
    /\ \E a \in get_product_args : Invoke("get_product", a, get_product_call(a))

list_product_types ==
    /\ pc = "idle"
    /\ \E a \in list_product_types_args :
          Invoke("list_product_types", a, list_product_types_call(a))

count_products ==
    /\ pc = "idle"
    /\ \E a \in count_products_args : Invoke("count_products", a, count_products_call(a))

list_engagements ==
    /\ pc = "idle"
    /\ \E a \in list_engagements_args : Invoke("list_engagements", a, list_engagements_call(a))

get_engagement ==
    /\ pc = "idle"
    /\ \E a \in get_engagement_args : Invoke("get_engagement", a, get_engagement_call(a))

create_engagement ==
    /\ pc = "idle"
    /\ \E a \in create_engagement_args : Invoke("create_engagement", a, create_engagement_call(a))

update_engagement ==
    /\ pc = "idle"
    /\ \E a \in update_engagement_args : Invoke("update_engagement", a, update_engagement_call(a))

close_engagement ==
    /\ pc = "idle"
    /\ \E a \in close_engagement_args : Invoke("close_engagement", a, close_engagement_call(a))

list_tests ==
    /\ pc = "idle"
    /\ \E a \in list_tests_args : Invoke("list_tests", a, list_tests_call(a))

get_test ==
    /\ pc = "idle"
    /\ \E a \in get_test_args : Invoke("get_test", a, get_test_call(a))

list_users ==
    /\ pc = "idle"
    /\ \E a \in list_users_args : Invoke("list_users", a, list_users_call(a))

get_user ==
    /\ pc = "idle"
    /\ \E a \in get_user_args : Invoke("get_user", a, get_user_call(a))

list_dojo_groups ==
    /\ pc = "idle"
    /\ \E a \in list_dojo_groups_args : Invoke("list_dojo_groups", a, list_dojo_groups_call(a))

list_dojo_group_members ==
    /\ pc = "idle"
    /\ \E a \in list_dojo_group_members_args : Invoke("list_dojo_group_members", a, list_dojo_group_members_call(a))

\* a test or another module calls _build_findings_filters directly
build_findings_filters_direct ==
    /\ pc = "idle"
    /\ \E a \in get_findings_args :
          Invoke("_build_findings_filters", a,
                 [tag |-> "built", filters |-> build_findings_filters(a)])

\* a test or another module calls _build_product_filters directly
build_product_filters_direct ==
    /\ pc = "idle"
    /\ \E a \in list_products_args :
          LET b == build_product_filters(a)
          IN  Invoke("_build_product_filters", a,
                     IF b.raises THEN Raise(b.exception)
                     ELSE [tag |-> "built", filters |-> b.filters])

\* the code of tool `name` up to its await, return or raise
BeforeAwait(name, a) ==
    CASE name = "get_findings" -> get_findings_call(a)
      [] name = "search_findings" -> search_findings_call(a)
      [] name = "count_findings" -> count_findings_call(a)
      [] name = "update_finding_status" -> update_finding_status_call(a)
      [] name = "add_finding_note" -> add_finding_note_call(a)
      [] name = "create_finding" -> create_finding_call(a)
      [] name = "get_finding" -> get_finding_call(a)
      [] name = "list_products" -> list_products_call(a)
      [] name = "get_product" -> get_product_call(a)
      [] name = "list_product_types" -> list_product_types_call(a)
      [] name = "count_products" -> count_products_call(a)
      [] name = "list_engagements" -> list_engagements_call(a)
      [] name = "get_engagement" -> get_engagement_call(a)
      [] name = "create_engagement" -> create_engagement_call(a)
      [] name = "update_engagement" -> update_engagement_call(a)
      [] name = "close_engagement" -> close_engagement_call(a)
      [] name = "list_tests" -> list_tests_call(a)
      [] name = "get_test" -> get_test_call(a)
      [] name = "list_users" -> list_users_call(a)
      [] name = "get_user" -> get_user_call(a)
      [] name = "list_dojo_groups" -> list_dojo_groups_call(a)
      [] name = "list_dojo_group_members" -> list_dojo_group_members_call(a)

\* the code of tool `name` that follows its await
AfterAwait(name, a, f, res) ==
    CASE name = "get_findings" -> get_findings_return(f, res)
      [] name = "search_findings" -> search_findings_return(a, f, res)
      [] name = "count_findings" -> count_findings_return(f, res)
      [] name = "update_finding_status" -> update_finding_status_return(res)
      [] name = "add_finding_note" -> add_finding_note_return(res)
      [] name = "create_finding" -> create_finding_return(res)
      [] name = "get_finding" -> get_finding_return(res)
      [] name = "list_products" -> list_products_return(f, res)
      [] name = "count_products" -> count_products_return(f, res)
      [] name = "get_product" -> get_product_return(res)
      [] name = "list_product_types" -> list_product_types_return(f, res)
      [] name = "list_engagements" -> list_engagements_return(res)
      [] name = "get_engagement" -> get_engagement_return(res)
      [] name = "create_engagement" -> create_engagement_return(res)
      [] name = "update_engagement" -> update_engagement_return(res)
      [] name = "close_engagement" -> close_engagement_return(res)
      [] name = "list_tests" -> list_tests_return(f, res)
      [] name = "get_test" -> get_test_return(res)
      [] name = "list_users" -> list_users_return(f, res)
      [] name = "get_user" -> get_user_return(res)
      [] name = "list_dojo_groups" -> list_dojo_groups_return(f, res)
      [] name = "list_dojo_group_members" -> list_dojo_group_members_return(f, res)

\* the locals of the single invocation slot
Current ==
    [pc |-> pc, op |-> op, args |-> args, filters |-> filters, requests |-> requests,
     outcome |-> outcome, result |-> result, envelope |-> envelope,
     raised |-> raised, client |-> client]

\* the locals of an awaiting invocation fr when its transport call has ended
\* with outcome o: _request turns o into its result and the tool runs to its
\* return
Resumed(fr, o) ==
    LET res == client_request(o)
    IN  [fr EXCEPT !.pc = "done", !.outcome = o, !.result = res,
                   !.envelope = AfterAwait(fr.op, fr.args, fr.filters, res)]

\* the awaited transport call ends with outcome o
transport_returns ==
    /\ pc = "awaiting"
    /\ \E o \in Outcomes : Becomes(Resumed(Current, o))
    /\ UNCHANGED <<environ, startup, frames>>

\* the caller takes the outcome; nothing of the invocation is kept
caller_receives ==
    /\ pc = "done"
    /\ Becomes(IdleFrame)
    /\ UNCHANGED <<environ, startup, frames>>

Next ==
    \/ list_engagements
    \/ get_findings
    \/ search_findings
    \/ count_findings
    \/ update_finding_status
    \/ add_finding_note
    \/ create_finding
    \/ get_finding
    \/ list_products
    \/ count_products
    \/ get_product
    \/ list_product_types
    \/ get_engagement
    \/ create_engagement
    \/ update_engagement
    \/ close_engagement
    \/ list_tests
    \/ get_test
    \/ list_users
    \/ get_user
    \/ list_dojo_groups
    \/ list_dojo_group_members
    \/ build_findings_filters_direct
    \/ build_product_filters_direct
    \/ transport_returns
    \/ caller_receives

Spec == Init /\ [][Next]_vars

----------------------------------------------------------------------------
(* The server in any process environment *)

\* what the two environment variables may hold: unset, empty or a value
Environments ==
    {[DEFECTDOJO_API_BASE |-> b, DEFECTDOJO_API_TOKEN |-> t] :
        b \in {None, StrV(s_empty), StrV(s_url)}, t \in {None, StrV(s_token)}}

\* main() starts the server without reading the environment
InitEnvironment ==
    /\ Holds(IdleFrame)
    /\ environ \in Environments
    /\ startup = environ
    /\ frames = [s \in Slots |-> IdleFrame]

\* between two calls the process environment is changed
environment_changes ==
    /\ pc = "idle"
    /\ \E e \in Environments \ {environ} : environ' = e
    /\ UNCHANGED <<pc, op, args, filters, requests, outcome, result, envelope, raised,
                   client, startup, frames>>

NextEnvironment ==
    \/ Next
    \/ environment_changes

SpecEnvironment == InitEnvironment /\ [][NextEnvironment]_vars

----------------------------------------------------------------------------
(* Overlapping invocations: each coroutine has its own locals and suspends
   only at its await; the module-level state is the environment alone *)

\* the calls made while others are in flight
ConcurrentCalls ==
    {[op |-> "list_products",
      args |-> [build_product_filters_defaults EXCEPT !.tags = StrV(s_x)]],
     [op |-> "list_products",
      args |-> [build_product_filters_defaults EXCEPT !.prod_type = IntV(5)]],
     [op |-> "search_findings",
      args |-> Put([build_findings_filters_defaults EXCEPT !.severity = StrV(s_Critical)],
                   "query", StrV(s_x))],
     [op |-> "count_findings",
      args |-> Without([build_findings_filters_defaults EXCEPT !.active = BoolV(TRUE)],
                       {"limit", "offset"})],
     [op |-> "update_finding_status",
      args |-> [finding_id |-> IntV(1), status |-> StrV(s_Active)]],
     [op |-> "update_finding_status",
      args |-> [finding_id |-> IntV(1), status |-> StrV(s_bad)]]}

\* a caller invokes a tool in a free slot while the other slot is in any
\* position
invoke_concurrently ==
    /\ \E s \in Slots :
          /\ frames[s].pc = "idle"
          /\ \E c \in ConcurrentCalls :
                frames' = [frames EXCEPT
                              ![s] = Started(c.op, c.args, BeforeAwait(c.op, c.args),
                                             environ)]
    /\ UNCHANGED <<pc, op, args, filters, requests, outcome, result, envelope, raised,
                   client, environ, startup>>

\* the transport call of one slot ends while the other slot stays where it
\* is, the invocation resuming on the filters another invocation built
transport_returns_on_shared_filters ==
    /\ \E s \in Slots :
          /\ frames[s].pc = "awaiting"
          /\ \E o \in Outcomes, t \in Slots \ {s} :
                frames' = [frames EXCEPT
                              ![s] = Resumed([frames[s] EXCEPT
                                                 !.filters = frames[t].filters], o)]
    /\ UNCHANGED <<pc, op, args, filters, requests, outcome, result, envelope, raised,
                   client, environ, startup>>

\* the transport call of one slot ends while the other slot stays where it is
transport_returns_concurrently ==
    /\ \E s \in Slots :
          /\ frames[s].pc = "awaiting"
          /\ \E o \in Outcomes : frames' = [frames EXCEPT ![s] = Resumed(frames[s], o)]
    /\ UNCHANGED <<pc, op, args, filters, requests, outcome, result, envelope, raised,
                   client, environ, startup>>

\* the caller of one slot takes its outcome
caller_receives_concurrently ==
    /\ \E s \in Slots :
          /\ frames[s].pc = "done"
          /\ frames' = [frames EXCEPT ![s] = IdleFrame]
    /\ UNCHANGED <<pc, op, args, filters, requests, outcome, result, envelope, raised,
                   client, environ, startup>>

NextConcurrent ==
    \/ invoke_concurrently
    \/ transport_returns_concurrently
    \/ caller_receives_concurrently

SpecConcurrent == Init /\ [][NextConcurrent]_vars

----------------------------------------------------------------------------
(* Vocabulary of the properties *)

ToolNames ==
    {"get_findings", "search_findings", "count_findings", "update_finding_status",
     "add_finding_note", "create_finding", "get_finding", "list_products",
     "count_products", "list_engagements", "get_engagement", "create_engagement",
     "update_engagement", "close_engagement", "list_tests", "get_test",
     "list_users", "get_user", "list_dojo_groups", "list_dojo_group_members"}

\* a tool invocation is in progress or has ended
Invoked(name) == pc # "idle" /\ op = name

\* two strings that differ at most in the case of their letters
SameIgnoringCase(s, c) ==
    /\ Len(s) = Len(c)
    /\ \A i \in 1..Len(s) :
        \/ s[i] = c[i]
        \/ \E j \in 1..26 : {s[i], c[i]} = {UpperLetters[j], LowerLetters[j]}

CanonicalStatuses == {s_Active, s_Verified, s_False_Positive, s_Mitigated, s_Inactive}

\* the status table: the flags each recognised status sets
StatusRow(s) ==
    CASE s = s_Active         -> [active |-> BoolV(TRUE)]
      [] s = s_Verified       -> [active |-> BoolV(TRUE), verified |-> BoolV(TRUE)]
      [] s = s_False_Positive -> [false_p |-> BoolV(TRUE)]
      [] s = s_Mitigated      -> [active |-> BoolV(FALSE), mitigated |-> BoolV(TRUE)]
      [] s = s_Inactive       -> [active |-> BoolV(FALSE)]

\* flag k is present and true in payload d
FlagSet(d, k) == k \in DOMAIN d /\ d[k] = BoolV(TRUE)

----------------------------------------------------------------------------
\* C1: for each of the five recognised statuses, update_finding_status sends
\* one PATCH to the finding whose body is exactly that status's row of the
\* table, and no body it sends has false_p with verified, or mitigated with
\* active, both true.
C1_StatusPayloadIsTableRow ==
    Invoked("update_finding_status") =>
        /\ \A s \in CanonicalStatuses :
              args.status.v = s =>
                  requests = <<Request("PATCH",
                                       Msg("/api/v2/findings/{finding_id}/", args.finding_id),
                                       None, StatusRow(s))>>
        /\ \A i \in 1..Len(requests) :
              /\ ~(FlagSet(requests[i].json, "false_p") /\ FlagSet(requests[i].json, "verified"))
              /\ ~(FlagSet(requests[i].json, "mitigated") /\ FlagSet(requests[i].json, "active"))

\* update_finding_status("False Positive") has sent the body {false_p: true}
C1_Witness ==
    /\ Invoked("update_finding_status")
    /\ args.status.v = s_False_Positive
    /\ Len(requests) = 1
    /\ DOMAIN requests[1].json = {"false_p"}

\* C2: the status is matched without regard to case: a case variant of a
\* recognised status sends the payload of the canonical spelling, and any
\* other string ends the call with an error envelope that names the five
\* accepted values, with no transport call.
C2_StatusMatchIgnoresCase ==
    Invoked("update_finding_status") =>
        IF \E c \in CanonicalStatuses : SameIgnoringCase(args.status.v, c)
        THEN \A c \in CanonicalStatuses :
                SameIgnoringCase(args.status.v, c) =>
                    /\ Len(requests) = 1
                    /\ requests[1].method = "PATCH"
                    /\ requests[1].json = StatusRow(c)
        ELSE /\ pc = "done"
             /\ requests = <<>>
             /\ envelope =
                  [status |-> "error",
                   error  |-> Msg("Unsupported status: {status}. Use Active, Verified, False Positive, Mitigated, or Inactive.",
                                  args.status)]

\* update_finding_status("mItIgAtEd") has sent the body of Mitigated
C2_Witness ==
    /\ Invoked("update_finding_status")
    /\ args.status.v = s_mItIgAtEd
    /\ Len(requests) = 1
    /\ requests[1].json = StatusRow(s_Mitigated)

----------------------------------------------------------------------------
(* The transport call and the validation rules, as the properties see them *)

\* the awaited call ended with a 2xx response that is empty (204) or parsed
TransportSucceeded ==
    /\ outcome # None
    /\ outcome.kind = "response"
    /\ outcome.status_code \in 200..299
    /\ (outcome.status_code = 204 \/ outcome.parses)

\* the awaited call ended in a failure
TransportFailed == outcome # None /\ ~TransportSucceeded

\* the tool returned an envelope
Returned == pc = "done" /\ envelope # None

\* a string the caller supplied and that is not empty
NonEmpty(x) == x # None /\ x.v # <<>>

EngagementStatuses ==
    {s_Not_Started, s_Blocked, s_Cancelled, s_Completed, s_In_Progress, s_On_Hold,
     s_Waiting_for_Resource}

EngagementTypes == {s_Interactive, s_CI_CD}

Severities == {s_Critical, s_High, s_Medium, s_Low, s_Info}

TagsModes == {s_any, s_all}

IgnoringCaseIn(s, words) == \E w \in words : SameIgnoringCase(s, w)

\* the validation rule that the arguments of the invoked tool violate, if any:
\* a value outside its vocabulary (for tags_mode: any supplied value that is
\* neither "any" nor "all"), a blank note, an update without fields
RuleViolated ==
    CASE op = "update_finding_status" ->
            ~IgnoringCaseIn(args.status.v, CanonicalStatuses)
      [] op = "create_finding" ->
            ~IgnoringCaseIn(args.severity.v, Severities)
      [] op = "add_finding_note" ->
            \A i \in 1..Len(args.note.v) : args.note.v[i] \in {" ", "\t", "\n"}
      [] op = "list_engagements" ->
            NonEmpty(args.status) /\ args.status.v \notin EngagementStatuses
      [] op = "create_engagement" ->
            \/ args.status.v \notin EngagementStatuses
            \/ NonEmpty(args.engagement_type) /\ args.engagement_type.v \notin EngagementTypes
      [] op = "update_engagement" ->
            \/ NonEmpty(args.status) /\ args.status.v \notin EngagementStatuses
            \/ NonEmpty(args.engagement_type) /\ args.engagement_type.v \notin EngagementTypes
            \/ \A p \in DOMAIN args \ {"engagement_id"} : args[p] = None
      [] op \in {"list_products", "count_products"} ->
            /\ args.tags_mode # None
            /\ ~IgnoringCaseIn(args.tags_mode.v, TagsModes)
      [] OTHER -> FALSE

----------------------------------------------------------------------------
\* C3: in every envelope a tool returns, status is "error" if and only if a
\* validation rule rejected the call before any transport call or the
\* transport call failed; a call that succeeded (2xx, parsed body, whatever
\* its keys) yields status "success".
C3_ErrorIffFailedOrRejected ==
    Returned =>
        (envelope.status = "error" <=> (requests = <<>> \/ TransportFailed))

\* C4: the success envelope of a list, search or count tool has
\* applied_filters exactly when the filter set it sent holds a key other than
\* limit, offset and o, and applied_filters is then that filter set without
\* those three keys.
C4_AppliedFiltersEchoSentFilters ==
    (/\ Returned
     /\ envelope.status = "success"
     /\ op \in {"list_engagements", "get_findings", "search_findings", "count_findings",
                "list_products", "count_products", "list_tests", "list_users",
                "list_dojo_groups", "list_dojo_group_members"})
    => LET sent == Without(requests[1].params, {"limit", "offset", "o"})
       IN  /\ "applied_filters" \in DOMAIN envelope <=> DOMAIN sent # {}
           /\ "applied_filters" \in DOMAIN envelope => envelope.applied_filters = sent

\* C5: an invocation issues at most one transport call: none when its
\* arguments violate a validation rule, in which case it ends at once with a
\* validation error, and exactly one otherwise; when that one call fails the
\* invocation ends with the failure as its error envelope and no second call.
C5_AtMostOneTransportCall ==
    /\ Len(requests) <= 1
    /\ (pc # "idle" /\ op \in ToolNames) =>
          /\ Len(requests) = IF RuleViolated THEN 0 ELSE 1
          /\ RuleViolated =>
                /\ pc = "done"
                /\ outcome = None
                /\ \/ raised # None
                   \/ envelope # None /\ envelope.status = "error"
          /\ (pc = "done" /\ TransportFailed) =>
                /\ Len(requests) = 1
                /\ envelope = [status  |-> "error",
                               error   |-> result.error,
                               details |-> IF "details" \in DOMAIN result
                                           THEN result.details ELSE StrV(s_empty)]

\* add_finding_note with an all-whitespace note ended without a transport call
C5_Witness ==
    /\ pc = "done"
    /\ op = "add_finding_note"
    /\ args.note.v = s_spaces
    /\ requests = <<>>
    /\ envelope.status = "error"

----------------------------------------------------------------------------
(* The filter set an invocation produced *)

DirectBuilders == {"_build_findings_filters", "_build_product_filters"}

FilterTools ==
    {"get_findings", "search_findings", "count_findings", "list_products",
     "count_products", "list_engagements", "list_tests", "list_users",
     "list_dojo_groups", "list_dojo_group_members"}

ProductOps == {"_build_product_filters", "list_products", "count_products"}

FindingsOps ==
    {"_build_findings_filters", "get_findings", "search_findings", "count_findings"}

\* the invocation built a filter set: a builder returned it, or a tool sent it
HasFilterSet ==
    /\ pc # "idle"
    /\ \/ op \in DirectBuilders /\ raised = None
       \/ op \in FilterTools /\ requests # <<>>

FilterSet == IF op \in DirectBuilders THEN filters ELSE requests[1].params

\* a single tag as a one-element list, a list as it is
AsList(tags) == IF tags.t = "str" THEN ListV(<<tags>>) ELSE tags

\* the text of the tags_mode validation error for mode m
TagsModeError(m) ==
    Msg("Invalid tags_mode '{tags_mode}'. Must be one of: {', '.join(VALID_TAGS_MODES)}",
        <<m, StrV(<<"a", "n", "y", ",", " ", "a", "l", "l">>)>>)

----------------------------------------------------------------------------
\* C6: with tags and a tags_mode that is "any" in any letter case the product
\* filter set has the tag list under `tag` and no `tags` key; with tags and
\* tags_mode "all" or none it has the tag list under `tags` and no `tag` key;
\* no product filter set has both keys.
C6_TagsModeSelectsKey ==
    (pc # "idle" /\ op \in ProductOps) =>
        /\ (args.tags # None /\ args.tags_mode # None
              /\ SameIgnoringCase(args.tags_mode.v, s_any)) =>
                /\ HasFilterSet
                /\ "tag" \in DOMAIN FilterSet
                /\ FilterSet.tag = AsList(args.tags)
                /\ "tags" \notin DOMAIN FilterSet
        /\ (args.tags # None /\ (args.tags_mode = None \/ args.tags_mode.v = s_all)) =>
                /\ HasFilterSet
                /\ "tags" \in DOMAIN FilterSet
                /\ FilterSet.tags = AsList(args.tags)
                /\ "tag" \notin DOMAIN FilterSet
        /\ HasFilterSet => ~({"tag", "tags"} \subseteq DOMAIN FilterSet)

\* _build_product_filters(tags=["a","b"], tags_mode="ANY") returned tag=["a","b"]
C6_Witness ==
    /\ pc = "done"
    /\ op = "_build_product_filters"
    /\ args.tags = ListV(<<StrV(s_a), StrV(s_b)>>)
    /\ args.tags_mode = StrV(s_ANY)
    /\ "tag" \in DOMAIN filters
    /\ filters.tag = ListV(<<StrV(s_a), StrV(s_b)>>)

\* C7: with tags and a tags_mode that is neither "any" nor "all" in any
\* letter case, list_products and count_products return
\* {status: "error", error: "Invalid tags_mode '<mode>'. Must be one of: any, all"}
\* without a transport call, and _build_product_filters raises a ValueError
\* with that message.
C7_InvalidTagsModeWithTags ==
    (/\ pc # "idle"
     /\ op \in ProductOps
     /\ args.tags # None
     /\ args.tags_mode # None
     /\ ~IgnoringCaseIn(args.tags_mode.v, TagsModes))
    => /\ pc = "done"
       /\ requests = <<>>
       /\ outcome = None
       /\ IF op = "_build_product_filters"
          THEN /\ raised = [type |-> "ValueError", message |-> TagsModeError(args.tags_mode)]
               /\ envelope = None
          ELSE /\ envelope = [status |-> "error", error |-> TagsModeError(args.tags_mode)]
               /\ raised = None

\* list_products(tags="x", tags_mode="bad") returned the error envelope
C7_Witness ==
    /\ pc = "done"
    /\ op = "list_products"
    /\ args.tags = StrV(s_x)
    /\ args.tags_mode = StrV(s_bad)
    /\ requests = <<>>
    /\ envelope = [status |-> "error", error |-> TagsModeError(StrV(s_bad))]

\* C8: whenever the caller supplies a tags_mode that is neither "any" nor
\* "all", with or without tags and also when it is the empty string, the call
\* is rejected: the builder raises, the tools return an error envelope, and no
\* transport call is made.
C8_InvalidTagsModeAlwaysRejected ==
    (/\ pc # "idle"
     /\ op \in ProductOps
     /\ args.tags_mode # None
     /\ ~IgnoringCaseIn(args.tags_mode.v, TagsModes))
    => /\ pc = "done"
       /\ requests = <<>>
       /\ IF op = "_build_product_filters"
          THEN raised # None
          ELSE envelope # None /\ envelope.status = "error"

\* the ordering every filter set of a resource carries
FixedOrder ==
    IF op = "list_engagements" THEN StrV(<<"-", "u", "p", "d", "a", "t", "e", "d">>)
    ELSE IF op = "list_tests" THEN StrV(<<"-", "i", "d">>)
    ELSE StrV(<<"i", "d">>)

\* the page size of a call that passes no limit
DefaultLimit ==
    IF op \in FindingsOps \cup {"list_engagements", "list_tests"} THEN IntV(20)
    ELSE IntV(50)

\* the caller passed no optional argument
NoOptionalArguments ==
    \A p \in DOMAIN args :
        args[p] = IF p = "limit" THEN DefaultLimit
                  ELSE IF p = "offset" THEN IntV(0) ELSE None

\* C9: a filter builder called with no optional argument produces exactly
\* {limit: <default>, o: <fixed order>} (20 and "id" for findings, 50 and "id"
\* for products, users, groups and group members, 20 and "-updated" for
\* engagements, 20 and "-id" for tests), and every filter set has o with the
\* resource's fixed value.
C9_DefaultFilterSet ==
    HasFilterSet =>
        /\ "o" \in DOMAIN FilterSet
        /\ FilterSet.o = FixedOrder
        /\ (/\ op \notin {"search_findings", "count_findings", "count_products"}
            /\ NoOptionalArguments)
           => FilterSet = [limit |-> DefaultLimit, o |-> FixedOrder]

\* list_engagements() sent {limit: 20, o: "-updated"}
C9_Witness ==
    /\ pc = "awaiting"
    /\ op = "list_engagements"
    /\ NoOptionalArguments
    /\ requests[1].params = [limit |-> IntV(20), o |-> StrV(s_minus_updated)]

\* the boolean filters of the invoked operation
BooleanFilters ==
    IF op \in FindingsOps THEN {"active", "is_mitigated", "duplicate"}
    ELSE IF op \in ProductOps THEN {"external_audience", "internet_accessible"}
    ELSE IF op = "list_users" THEN {"is_active", "is_superuser"}
    ELSE {}

\* C10: each boolean filter has three outcomes in the filter set: absent when
\* the caller passes None or nothing, true when the caller passes True, and
\* present with value false when the caller passes False.
C10_BooleanFiltersAreTriState ==
    HasFilterSet =>
        \A k \in BooleanFilters :
            /\ args[k] = None => k \notin DOMAIN FilterSet
            /\ args[k] = BoolV(TRUE) => k \in DOMAIN FilterSet /\ FilterSet[k] = BoolV(TRUE)
            /\ args[k] = BoolV(FALSE) => k \in DOMAIN FilterSet /\ FilterSet[k] = BoolV(FALSE)

\* get_findings(active=False) sent active=false
C10_Witness ==
    /\ pc = "awaiting"
    /\ op = "get_findings"
    /\ args.active = BoolV(FALSE)
    /\ "active" \in DOMAIN requests[1].params
    /\ requests[1].params.active = BoolV(FALSE)

----------------------------------------------------------------------------
CountTools == {"count_findings", "count_products"}

\* the limit and offset the builder of the invocation was called with: the
\* caller's, or 1 and 0 from a count tool
BuilderLimit == IF op \in CountTools THEN IntV(1) ELSE args.limit

BuilderOffset == IF op \in CountTools THEN IntV(0) ELSE args.offset

\* C11: every filter set has limit with the value the builder was given, and
\* has offset exactly when the given offset is not zero, with that value.
C11_LimitAlwaysOffsetWhenNonZero ==
    HasFilterSet =>
        /\ "limit" \in DOMAIN FilterSet
        /\ FilterSet.limit = BuilderLimit
        /\ "offset" \in DOMAIN FilterSet <=> BuilderOffset.v # 0
        /\ "offset" \in DOMAIN FilterSet => FilterSet.offset = BuilderOffset

\* list_users(limit=0, offset=-1) sent {limit: 0, o: "id", offset: -1}
C11_Witness ==
    /\ pc = "awaiting"
    /\ op = "list_users"
    /\ args.limit = IntV(0)
    /\ args.offset = IntV(-1)
    /\ requests[1].params = [limit |-> IntV(0), o |-> StrV(s_id), offset |-> IntV(-1)]

\* C12: get_findings, search_findings and count_findings send a supplied
\* engagement_id, 0 included, under test__engagement, never send the key
\* engagement, and send no test__engagement when engagement_id is None.
C12_EngagementIdSentAsTestEngagement ==
    (HasFilterSet /\ op \in FindingsOps) =>
        /\ "engagement" \notin DOMAIN FilterSet
        /\ args.engagement_id # None =>
              /\ "test__engagement" \in DOMAIN FilterSet
              /\ FilterSet.test__engagement = args.engagement_id
        /\ args.engagement_id = None => "test__engagement" \notin DOMAIN FilterSet

\* count_findings(engagement_id=0) sent test__engagement=0
C12_Witness ==
    /\ pc = "awaiting"
    /\ op = "count_findings"
    /\ args.engagement_id = IntV(0)
    /\ requests[1].params = [limit |-> IntV(1), o |-> StrV(s_id), test__engagement |-> IntV(0)]

----------------------------------------------------------------------------
(* A count tool against the list tool of the same resource *)

Paging == {"limit", "offset"}

\* the filter arguments a of a count tool, passed to the list tool with page
\* size l and offset o
WithPaging(a, l, o) ==
    [p \in DOMAIN a \cup Paging |->
        IF p = "limit" THEN l ELSE IF p = "offset" THEN o ELSE a[p]]

\* how the list tool of the invoked count tool's resource starts on arguments a
ListCall(a) ==
    IF op = "count_findings" THEN get_findings_call(a) ELSE list_products_call(a)

\* the envelope that list tool returns for filters f and transport result res
ListReturn(f, res) ==
    IF op = "count_findings" THEN get_findings_return(f, res)
    ELSE list_products_return(f, res)

PageSizes == Limits \cup {IntV(20), IntV(50)}

PageOffsets == Offsets \cup {IntV(0)}

\* C13: for the same filter arguments, the filter set count_findings
\* (count_products) sends has limit 1 and no offset and agrees on every other
\* key with the one get_findings (list_products) sends, whatever page the list
\* tool is asked for; a call the list tool rejects, the count tool rejects
\* with the same envelope.
C13_CountSendsListFiltersWithLimitOne ==
    (pc # "idle" /\ op \in CountTools) =>
        \A l \in PageSizes, o \in PageOffsets :
            LET lc == ListCall(WithPaging(args, l, o))
            IN  IF lc.tag = "return"
                THEN /\ requests = <<>>
                     /\ pc = "done"
                     /\ envelope = lc.envelope
                ELSE /\ Len(requests) = 1
                     /\ requests[1].method = lc.request.method
                     /\ requests[1].endpoint = lc.request.endpoint
                     /\ requests[1].params.limit = IntV(1)
                     /\ "offset" \notin DOMAIN requests[1].params
                     /\ Without(requests[1].params, Paging)
                          = Without(lc.request.params, Paging)

\* count_products(tags=["a","b"], tags_mode="ANY") sent {limit: 1, o: "id", tag: ["a","b"]}
C13_Witness ==
    /\ pc = "awaiting"
    /\ op = "count_products"
    /\ args.tags_mode = StrV(s_ANY)
    /\ requests[1].params =
          [limit |-> IntV(1), o |-> StrV(s_id), tag |-> ListV(<<StrV(s_a), StrV(s_b)>>)]

\* a 2xx response whose parsed body reports a total and no error
ReportsTotal(o) ==
    /\ o.kind = "response"
    /\ o.status_code \in 200..299
    /\ o.status_code # 204
    /\ o.parses
    /\ "count" \in DOMAIN o.json
    /\ "error" \notin DOMAIN o.json

\* C14: when the remote answers the count tool and the list tool with the
\* same total (their non-pagination filter keys being the same), the count
\* envelope's count equals the count field of the list envelope's data, for
\* every page the list tool asks for and whatever records the pages hold.
C14_CountEqualsListDataCount ==
    (pc = "done" /\ op \in CountTools /\ outcome # None /\ ReportsTotal(outcome)) =>
        \A l \in PageSizes, o \in PageOffsets :
            LET lc == ListCall(WithPaging(args, l, o))
            IN  /\ lc.tag = "await"
                /\ Without(lc.request.params, Paging \cup {"o"})
                     = Without(requests[1].params, Paging \cup {"o"})
                /\ \A answer \in Outcomes :
                      (ReportsTotal(answer) /\ answer.json.count = outcome.json.count) =>
                          LET listed == ListReturn(lc.filters, client_request(answer))
                          IN  /\ envelope.status = "success"
                              /\ listed.status = "success"
                              /\ envelope.count = listed.data.count

\* count_findings returned count 7 for a body that reports the total 7
C14_Witness ==
    /\ pc = "done"
    /\ op = "count_findings"
    /\ outcome.kind = "response"
    /\ outcome.json = [count |-> IntV(7), results |-> ListV(<<>>)]
    /\ envelope = [status |-> "success", count |-> IntV(7)]

----------------------------------------------------------------------------
\* the parsed body of a successful transport call: the empty object for 204
ReceivedBody == IF outcome.status_code = 204 THEN EmptyDict ELSE outcome.json

\* C15: no envelope has both count and data: a success envelope of
\* count_findings or count_products has count (the body's count field, 0 when
\* the body has none) and no data, a success envelope of any other tool has
\* data and no count, and an error envelope has neither.
C15_CountAndDataExclusive ==
    Returned =>
        /\ ~({"count", "data"} \subseteq DOMAIN envelope)
        /\ (envelope.status = "success" /\ op \in CountTools) =>
              /\ "count" \in DOMAIN envelope
              /\ envelope.count = Get(ReceivedBody, "count", IntV(0))
              /\ "data" \notin DOMAIN envelope
        /\ (envelope.status = "success" /\ op \notin CountTools) =>
              /\ "data" \in DOMAIN envelope
              /\ "count" \notin DOMAIN envelope
        /\ envelope.status = "error" =>
              /\ "data" \notin DOMAIN envelope
              /\ "count" \notin DOMAIN envelope

\* count_products returned count 0 for a body without a count field
C15_Witness ==
    /\ pc = "done"
    /\ op = "count_products"
    /\ outcome = Response(200, StrV(s_x), TRUE, [results |-> ListV(<<>>)])
    /\ envelope.status = "success"
    /\ envelope.count = IntV(0)

\* C16: when the transport call fails, the tool's envelope is exactly
\* {status: "error", error, details} with the transport's error text, and its
\* details text or the empty string when it gave none: no data, count or
\* applied_filters.
C16_TransportErrorPassedThrough ==
    (pc = "done" /\ TransportFailed) =>
        /\ result = client_request(outcome)
        /\ envelope # None
        /\ DOMAIN envelope = {"status", "error", "details"}
        /\ envelope.status = "error"
        /\ envelope.error = result.error
        /\ envelope.details =
              IF "details" \in DOMAIN result THEN result.details ELSE StrV(s_empty)

\* get_findings returned the text of an HTTP 400 answer in details
C16_Witness ==
    /\ pc = "done"
    /\ op = "get_findings"
    /\ outcome.kind = "response"
    /\ outcome.status_code = 400
    /\ envelope = [status  |-> "error",
                   error   |-> Msg("HTTP error: {e.response.status_code}", IntV(400)),
                   details |-> StrV(s_Bad_Request)]

----------------------------------------------------------------------------
\* the result the transport client is said to give for each class of outcome
StatedResult(o) ==
    CASE o.kind = "request_error" ->
            [error |-> Msg("Request error: {str(e)}", o.text)]
      [] o.kind = "exception" ->
            [error |-> Msg("An unexpected error occurred: {str(e)}", o.text)]
      [] o.kind = "response" /\ o.status_code \notin 200..299 ->
            [error   |-> Msg("HTTP error: {e.response.status_code}", IntV(o.status_code)),
             details |-> o.text]
      [] o.kind = "response" /\ o.status_code = 204 -> EmptyDict
      [] o.kind = "response" /\ o.status_code \in 200..299 /\ o.status_code # 204 ->
            IF o.parses THEN o.json
            ELSE [error |-> Msg("An unexpected error occurred: {str(e)}", o.text)]

\* C17 as stated: _request raises nothing and gives the stated result for each
\* class of outcome (HTTP error status, network failure, any other failure or
\* unparseable body, 204, other 2xx), and every tool that receives the empty
\* object returns a success envelope whose data is the empty object.
C17_EmptyObjectIsEmptyDataForEveryTool ==
    (pc = "done" /\ outcome # None) =>
        /\ raised = None
        /\ result = StatedResult(outcome)
        /\ DOMAIN result = {} =>
              /\ envelope.status = "success"
              /\ "data" \in DOMAIN envelope
              /\ DOMAIN envelope.data = {}

\* C17, amended: the same, except that on the empty object a count tool
\* returns a success envelope with count 0 and no data, and every other tool a
\* success envelope whose data is the empty object.
C17_RequestClassifiesEveryOutcome ==
    (pc = "done" /\ outcome # None) =>
        /\ raised = None
        /\ result = StatedResult(outcome)
        /\ DOMAIN result = {} =>
              /\ envelope.status = "success"
              /\ IF op \in CountTools
                 THEN /\ "data" \notin DOMAIN envelope
                      /\ envelope.count = IntV(0)
                 ELSE /\ "data" \in DOMAIN envelope
                      /\ DOMAIN envelope.data = {}

\* get_engagement received the empty object of a 204 and returned empty data
C17_Witness ==
    /\ pc = "done"
    /\ op = "get_engagement"
    /\ outcome = Response(204, StrV(s_empty), FALSE, None)
    /\ DOMAIN result = {}
    /\ DOMAIN envelope = {"status", "data"}
    /\ envelope.status = "success"
    /\ DOMAIN envelope.data = {}

----------------------------------------------------------------------------
\* C18: every tool ends by returning an envelope and never by raising, for
\* every input and transport outcome; only _build_product_filters raises, on a
\* bad tags_mode; create_engagement with an invalid status or engagement_type
\* returns an error envelope.
C18_ToolsReturnAndNeverRaise ==
    pc = "done" =>
        /\ op \in ToolNames =>
              /\ raised = None
              /\ envelope # None
              /\ envelope.status \in {"success", "error"}
        /\ raised # None => op = "_build_product_filters"
        /\ (/\ op = "create_engagement"
            /\ \/ args.status.v \notin EngagementStatuses
               \/ NonEmpty(args.engagement_type)
                    /\ args.engagement_type.v \notin EngagementTypes)
           => envelope # None /\ envelope.status = "error"

\* the body key an argument of a mutation is sent under
BodyKey(p) == IF p = "lead_id" THEN "lead" ELSE p

\* the optional arguments of the invoked mutation
OptionalArguments ==
    CASE op = "create_finding" -> DOMAIN create_finding_defaults
      [] op = "create_engagement" -> DOMAIN engagement_optional_defaults
      [] op = "update_engagement" -> DOMAIN update_engagement_defaults

SuppliedArguments == {p \in OptionalArguments : args[p] # None}

\* C19: update_engagement with every optional field None returns the error
\* "At least one field must be provided for update" and sends nothing; with a
\* non-None field and no status or engagement_type outside its vocabulary it
\* sends exactly one PATCH whose body has exactly the non-None fields.
C19_UpdateEngagementSendsSuppliedFields ==
    Invoked("update_engagement") =>
        /\ SuppliedArguments = {} =>
              /\ pc = "done"
              /\ requests = <<>>
              /\ envelope = [status |-> "error",
                             error  |-> Msg("At least one field must be provided for update", None)]
        /\ (/\ SuppliedArguments # {}
            /\ ~(NonEmpty(args.status) /\ args.status.v \notin EngagementStatuses)
            /\ ~(NonEmpty(args.engagement_type)
                   /\ args.engagement_type.v \notin EngagementTypes))
           => /\ Len(requests) = 1
              /\ requests[1].method = "PATCH"
              /\ requests[1].endpoint =
                    Msg("/api/v2/engagements/{engagement_id}/", args.engagement_id)
              /\ DOMAIN requests[1].json = {BodyKey(p) : p \in SuppliedArguments}
              /\ \A p \in SuppliedArguments : requests[1].json[BodyKey(p)] = args[p]

\* update_engagement(name="", deduplication_on_engagement=False) sent both fields
C19_Witness ==
    /\ pc = "awaiting"
    /\ op = "update_engagement"
    /\ requests[1].json = [name |-> StrV(s_empty),
                           deduplication_on_engagement |-> BoolV(FALSE)]

\* C20: in the body create_engagement, update_engagement and create_finding
\* send, each optional field is present exactly when the caller passed a
\* value other than None, an empty string or False included, and carries that
\* value; this covers cvssv3, mitigation, impact and steps_to_reproduce.
C20_OptionalFieldSentIffNotNone ==
    (/\ pc # "idle"
     /\ op \in {"create_engagement", "update_engagement", "create_finding"}
     /\ requests # <<>>)
    => \A p \in OptionalArguments :
          /\ args[p] # None =>
                /\ BodyKey(p) \in DOMAIN requests[1].json
                /\ requests[1].json[BodyKey(p)] = args[p]
          /\ args[p] = None => BodyKey(p) \notin DOMAIN requests[1].json

----------------------------------------------------------------------------
\* C21: a body create_engagement or update_engagement sends has, under
\* status, one of the seven engagement statuses and, under engagement_type,
\* Interactive or CI/CD; the status filter list_engagements sends is one of
\* the seven; no supplied value, the empty string included, is sent unchecked.
C21_EngagementVocabularyOnTheWire ==
    (pc # "idle" /\ requests # <<>>) =>
        /\ op \in {"create_engagement", "update_engagement"} =>
              /\ "status" \in DOMAIN requests[1].json =>
                    requests[1].json.status.v \in EngagementStatuses
              /\ "engagement_type" \in DOMAIN requests[1].json =>
                    requests[1].json.engagement_type.v \in EngagementTypes
        /\ op = "list_engagements" =>
              ("status" \in DOMAIN requests[1].params =>
                    requests[1].params.status.v \in EngagementStatuses)

\* "Critical, High, Medium, Low, Info"
SeverityListing ==
    s_Critical \o s_comma_space \o s_High \o s_comma_space \o s_Medium
        \o s_comma_space \o s_Low \o s_comma_space \o s_Info

\* C22: create_finding takes the severity in any letter case: when it is one
\* of the five severities up to case, the body sent has that severity in its
\* title-cased spelling with active true and verified false; otherwise the
\* call returns an error envelope that lists the five title-cased values and
\* sends nothing.
C22_SeverityTitleCased ==
    Invoked("create_finding") =>
        IF IgnoringCaseIn(args.severity.v, Severities)
        THEN /\ Len(requests) = 1
             /\ requests[1].method = "POST"
             /\ requests[1].json.severity.v \in Severities
             /\ SameIgnoringCase(requests[1].json.severity.v, args.severity.v)
             /\ requests[1].json.active = BoolV(TRUE)
             /\ requests[1].json.verified = BoolV(FALSE)
        ELSE /\ pc = "done"
             /\ requests = <<>>
             /\ envelope =
                  [status |-> "error",
                   error  |-> Msg("Invalid severity '{severity}'. Must be one of: {', '.join(valid_display)}",
                                  <<args.severity, StrV(SeverityListing)>>)]

\* create_finding(severity="hIgH") sent severity "High"
C22_Witness ==
    /\ pc = "awaiting"
    /\ op = "create_finding"
    /\ args.severity = StrV(s_hIgH)
    /\ requests[1].json.severity = StrV(s_High)

\* a scalar as a one-element sequence, a sequence as it is
AsSequence(x) == IF x.t = "list" THEN x ELSE ListV(<<x>>)

\* C23: a product filter set carries the tags and the product-type ids as a
\* sequence in the caller's order: a single tag or a single prod_type as a
\* one-element sequence, a list as given.
C23_MultiValuedFiltersAreSequences ==
    (HasFilterSet /\ op \in ProductOps) =>
        /\ args.prod_type # None =>
              /\ "prod_type" \in DOMAIN FilterSet
              /\ FilterSet.prod_type = AsSequence(args.prod_type)
        /\ args.tags # None =>
              \E k \in {"tag", "tags"} :
                  /\ k \in DOMAIN FilterSet
                  /\ FilterSet[k] = AsSequence(args.tags)

\* C23 (as the code has it): a product filter set carries the tags as a
\* sequence in the caller's order, a single tag as a one-element sequence,
\* and the product-type ids as the caller gave them: a single id as that id, a
\* list as that list in its order.
C23_TagsAreSequencesProdTypeAsGiven ==
    (HasFilterSet /\ op \in ProductOps) =>
        /\ args.prod_type # None =>
              /\ "prod_type" \in DOMAIN FilterSet
              /\ FilterSet.prod_type = args.prod_type
        /\ args.tags # None =>
              \E k \in {"tag", "tags"} :
                  /\ k \in DOMAIN FilterSet
                  /\ FilterSet[k] = AsSequence(args.tags)

\* list_products(tags="x", prod_type=5) sent tags ["x"] and prod_type 5
C23_Witness ==
    /\ pc = "awaiting"
    /\ op = "list_products"
    /\ args.tags = StrV(s_x)
    /\ args.prod_type = IntV(5)
    /\ requests[1].params.tags = ListV(<<StrV(s_x)>>)
    /\ requests[1].params.prod_type = IntV(5)

\* C24: no filter set a builder produced (the search key is the transport
\* client's, not a builder's) has a key whose value is null, an empty string
\* or an empty list.
C24_NoEmptyFilterValues ==
    HasFilterSet =>
        \A k \in DOMAIN FilterSet \ {"search"} :
            /\ FilterSet[k] # None
            /\ FilterSet[k].t \in {"str", "list"} => FilterSet[k].v # <<>>

\* C28: search_findings sends the findings filter set of its arguments plus
\* search=<query>; the transport client leaves the filter mapping it was
\* handed as it was; and on success applied_filters is that filter set without
\* limit, offset and o, plus query=<query>, and nothing else.
C28_SearchLeavesFilterMappingUnchanged ==
    Invoked("search_findings") =>
        /\ requests[1].params = Put(build_findings_filters(args), "search", args.query)
        /\ filters = build_findings_filters(args)
        /\ (Returned /\ envelope.status = "success") =>
              envelope.applied_filters =
                  Put(Without(build_findings_filters(args), {"limit", "offset", "o"}),
                      "query", args.query)

\* the identifier-valued filters: the operations, the argument, the key sent
IdFilters ==
    {[ops |-> FindingsOps, arg |-> "engagement_id", key |-> "test__engagement"],
     [ops |-> {"list_engagements"}, arg |-> "product_id", key |-> "product"],
     [ops |-> {"list_tests"}, arg |-> "engagement_id", key |-> "engagement"],
     [ops |-> {"list_tests"}, arg |-> "test_type", key |-> "test_type"],
     [ops |-> {"list_dojo_group_members"}, arg |-> "group_id", key |-> "group"],
     [ops |-> {"list_dojo_group_members"}, arg |-> "user_id", key |-> "user"]}

\* C29: an identifier-valued filter is in the filter set, with the caller's
\* value, whenever the caller supplied an integer, 0 included, and is absent
\* exactly when the caller passed None.
C29_IdFiltersKeepZero ==
    HasFilterSet =>
        \A r \in IdFilters :
            op \in r.ops =>
                IF args[r.arg] = None
                THEN r.key \notin DOMAIN FilterSet
                ELSE /\ r.key \in DOMAIN FilterSet
                     /\ FilterSet[r.key] = args[r.arg]

----------------------------------------------------------------------------
\* the errors get_client raises when the base URL or the token is missing
ConfigurationErrors ==
    {get_client(e).exception : e \in {x \in Environments : get_client(x).raises}}

\* C25: the base URL and the token are those of the environment the server
\* started in, whatever the environment has become since, and no operation
\* call ends with the error of a missing base URL or token.
C25_ConfigurationResolvedOnceAtStartup ==
    /\ client # None =>
          client = [base_url  |-> startup.DEFECTDOJO_API_BASE,
                    api_token |-> startup.DEFECTDOJO_API_TOKEN]
    /\ raised \notin ConfigurationErrors

\* what an invocation of tool `name` with arguments a has when it runs with no
\* other invocation in flight: before its transport call ends (o is None) and
\* after it has ended with outcome o
RunAlone(name, a, o) ==
    LET started == Started(name, a, BeforeAwait(name, a), Configured)
    IN  IF o = None THEN started ELSE Resumed(started, o)

C30_ValidationBeforeConfiguration ==
    (pc # "idle" /\ op \in ToolNames /\ RuleViolated) =>
        /\ pc = "done"
        /\ client = None
        /\ \A e \in Environments : Current = Started(op, args, BeforeAwait(op, args), e)

============================================================================
